---- MODULE Spec2Model ----
(***************************************************************************)
(* Model of sqlalchemy_searchable/__init__.py: the search-term sanitizer,  *)
(* the tsquery filter builder, the search() helpers and the Searchable     *)
(* mixin with its instrument_class hook.                                   *)
(*                                                                         *)
(* Text the code inspects character by character (the raw search query,    *)
(* the wildcard, the terms) is a sequence of one-character strings.  Text  *)
(* the code only formats with % or str.format (identifiers, predicates,    *)
(* DDL) is a string, concatenated with \o.  An optional value is <<>> for  *)
(* None and <<v>> for the value v.                                         *)
(***************************************************************************)
EXTENDS Integers, Sequences, FiniteSets, TLC

VARIABLES
    op,             \* the operation that has run: "init" before any call
    search_query,   \* raw search string handed to the call (characters)
    wildcard,       \* safe_search_terms' wildcard argument (characters)
    terms,          \* list returned by safe_search_terms
    query,          \* the Query object handed to search / search_filter
    tablename,      \* optional tablename argument
    language,       \* optional language argument
    result,         \* outcome of the call: a return value or an exception
    classes,        \* the mapped classes: bases and class attributes
    cls,            \* class handed to _inspect_searchable_tablename
    instrumented,   \* number of classes whose instrument_class event fired
    listeners,      \* after_create listeners registered on each __table__
    raised          \* classes whose instrument_class hook raised

vars == <<op, search_query, wildcard, terms, query, tablename, language,
          result, classes, cls, instrumented, listeners, raised>>

---------------------------------------------------------------------------
(* Bounds *)

\* longest raw query handed to safe_search_terms
MaxLen == 4

\* number of mapped classes
NumModels == 2

\* longest list of base classes of a mapped class
MaxBases == 2

---------------------------------------------------------------------------
(* Characters *)

\* the characters the pattern of line 11 names besides \s
Reserved == {"(", ")", ":", "|", "&", "!", "*", "@", "#"}

\* \s, and what str.strip() strips
Whitespace == {" ", "\t"}

WordChars == {"a", "b"}

Alphabet == WordChars \cup Whitespace \cup Reserved

\* the character class [():|&!*@#\s] of line 11
Illegal == Reserved \cup Whitespace

RECURSIVE StringsUpTo(_, _)
StringsUpTo(chars, n) ==
    IF n = 0 THEN {<<>>}
    ELSE LET shorter == StringsUpTo(chars, n - 1)
         IN  shorter \cup {<<c>> \o s : c \in chars,
                                        s \in {t \in shorter : Len(t) = n - 1}}

HelloWorld == <<"h", "e", "l", "l", "o", " ", "w", "o", "r", "l", "d">>

DefaultWildcard == <<":", "*">>

Wildcards == {DefaultWildcard, <<":">>}

\* a character sequence as a string
RECURSIVE Str(_)
Str(cs) == IF cs = <<>> THEN "" ELSE Head(cs) \o Str(Tail(cs))

---------------------------------------------------------------------------
(* safe_search_terms *)

RECURSIVE DropIllegal(_)
DropIllegal(s) ==
    IF s # <<>> /\ Head(s) \in Illegal THEN DropIllegal(Tail(s)) ELSE s

\* re.sub(r'[():|&!*@#\s]+', ' ', query): every maximal run of characters
\* of the class becomes one space
RECURSIVE ReSub(_)
ReSubNoPlus(s) ==
    [i \in 1..Len(s) |-> IF s[i] \in Illegal THEN " " ELSE s[i]]

ReSub(s) ==
    IF s = <<>> THEN <<>>
    ELSE IF Head(s) \in Illegal
         THEN <<" ">> \o ReSub(DropIllegal(Tail(s)))
         ELSE <<Head(s)>> \o ReSub(Tail(s))

RECURSIVE LStrip(_)
LStrip(s) ==
    IF s # <<>> /\ Head(s) \in Whitespace THEN LStrip(Tail(s)) ELSE s

RECURSIVE RStrip(_)
RStrip(s) ==
    IF s # <<>> /\ s[Len(s)] \in Whitespace
    THEN RStrip(SubSeq(s, 1, Len(s) - 1))
    ELSE s

\* str.strip()
StripNothing(s) == s

Strip(s) == RStrip(LStrip(s))

\* str.split(sep) for a one-character sep: every sep ends a piece, so
\* adjacent separators give empty pieces
RECURSIVE SplitFrom(_, _, _)
SplitFrom(s, sep, piece) ==
    IF s = <<>> THEN <<piece>>
    ELSE IF Head(s) = sep
         THEN <<piece>> \o SplitFrom(Tail(s), sep, <<>>)
         ELSE SplitFrom(Tail(s), sep, Append(piece, Head(s)))

Split(s, sep) == SplitFrom(s, sep, <<>>)

safe_search_terms(q, w) ==
    LET cleaned == Strip(ReSub(q))
    IN  IF cleaned = <<>> THEN <<>>
        ELSE LET pieces == Split(cleaned, " ")
             IN  [i \in 1..Len(pieces) |-> pieces[i] \o w]

\* sep.join(list)
RECURSIVE Join(_, _)
Join(list, sep) ==
    IF list = <<>> THEN <<>>
    ELSE IF Len(list) = 1 THEN list[1]
    ELSE list[1] \o sep \o Join(Tail(list), sep)

---------------------------------------------------------------------------
(* Classes *)

\* names of the mapped classes, in definition order
ModelNames == <<"A", "B", "C", "D">>

Models == {ModelNames[i] : i \in 1..NumModels}

\* __tablename__ of each mapped class
Tablenames == <<"articles", "comments", "tags", "authors">>

\* "Plain" stands for any class that does not derive from Searchable
\* (a declarative base, a mixin)
BuiltinBases ==
    [object |-> <<>>, Searchable |-> <<"object">>, Plain |-> <<"object">>]

\* cls.__bases__ in the hierarchy h
BasesOf(h, c) ==
    IF c \in DOMAIN BuiltinBases THEN BuiltinBases[c] ELSE h[c].bases

Range(s) == {s[i] : i \in 1..Len(s)}

RECURSIVE Ancestors(_, _)
Ancestors(h, c) ==
    LET bs == Range(BasesOf(h, c))
    IN  bs \cup UNION {Ancestors(h, b) : b \in bs}

\* issubclass(c, d)
issubclass(h, c, d) == c = d \/ d \in Ancestors(h, c)

\* class attributes a mapped class may set; the value is the one attribute
\* lookup on the class gives (set on the class itself or inherited)
NoOptions == <<>>                               \* no __search_options__
EmptyOptions == <<[tablename |-> <<>>]>>        \* a dict without 'tablename'
CustomOptions == <<[tablename |-> <<"custom">>]>>

\* base lists Python accepts for a class defined after the classes of h:
\* no duplicates, and no base ahead of one of its own subclasses
RECURSIVE SeqsUpTo(_, _)
SeqsUpTo(S, n) ==
    IF n = 0 THEN {<<>>}
    ELSE LET shorter == SeqsUpTo(S, n - 1)
         IN  shorter \cup {Append(s, x) : s \in {t \in shorter : Len(t) = n - 1},
                                          x \in S}

BaseLists(h) ==
    {b \in SeqsUpTo({"Searchable", "Plain"} \cup DOMAIN h, MaxBases) :
        /\ Len(b) >= 1
        /\ \A i, j \in 1..Len(b) : i < j => ~issubclass(h, b[j], b[i])}

ClassDecl(i, b, cols, vec, opts) ==
    [bases |-> b,
     tablename |-> Tablenames[i],
     searchable_columns |-> cols,
     search_vector_name |-> vec,
     search_options |-> opts,
     search_trigger_name |-> <<>>,
     search_index_name |-> <<>>]

EmptyHierarchy == [c \in {} |-> ClassDecl(1, <<>>, <<>>, "", NoOptions)]

\* the hierarchies of n mapped classes whose attributes are drawn from the
\* given choices; lastOpts are the choices of __search_options__ of the
\* class defined last
RECURSIVE Hierarchies(_, _, _, _, _)
Hierarchies(n, Cols, Vecs, Opts, lastOpts) ==
    IF n = 0 THEN {EmptyHierarchy}
    ELSE UNION {
            {h @@ (ModelNames[n] :> ClassDecl(n, b, cols, vec, opts)) :
                b \in BaseLists(h), cols \in Cols, vec \in Vecs,
                opts \in lastOpts} :
            h \in Hierarchies(n - 1, Cols, Vecs, Opts, Opts)}

---------------------------------------------------------------------------
(* Outcomes of a call, and Query objects *)

\* A Query: oid tells one Query object from another (filter() and params()
\* each return a new object); entities is query._entities, each entry its
\* entity_zero (<<>> for None, <<c>> for the mapper of class c);
\* has_search_filter says whether the Query class mixes in
\* SearchQueryMixin; params is <<>> until `term` is bound.
NoQuery == [oid |-> 0, entities |-> <<>>, has_search_filter |-> FALSE,
            criteria |-> <<>>, params |-> <<>>]

NoResult == [kind |-> "none", exc |-> "", text |-> <<>>, query |-> NoQuery]

\* a call returns a string (<<>> for None) or a Query, or raises
Return(t) == [kind |-> "return", exc |-> "", text |-> t, query |-> NoQuery]

ReturnQuery(q) == [kind |-> "return", exc |-> "", text |-> <<>>, query |-> q]

Raise(e) == [kind |-> "raise", exc |-> e, text |-> <<>>, query |-> NoQuery]

\* Query.filter(criterion)
filter(q, criterion) ==
    [q EXCEPT !.oid = @ + 1, !.criteria = Append(@, criterion)]

\* Query.params(term=t)
params(q, t) == [q EXCEPT !.oid = @ + 1, !.params = <<t>>]

\* '%s' % v
PyStr(v) == IF v = <<>> THEN "None" ELSE v[1]

\* `not v` for a string or None
Falsy(v) == v = <<>> \/ v = <<"">>

---------------------------------------------------------------------------
(* quote_identifier, _inspect_searchable_tablename, search_filter *)

QuoteNone(identifier) == PyStr(identifier)

quote_identifier(identifier) == "\"" \o PyStr(identifier) \o "\""

\* Searchable._inspect_searchable_tablename, called on class c.  A class
\* that does not derive from Searchable has no such attribute.
RECURSIVE inspect_searchable_tablename(_, _), InspectNoAttributeError(_, _)
InspectNoAttributeError(h, c) ==
    IF "Searchable" \in Range(BasesOf(h, c)) THEN Return(<<h[c].tablename>>)
    ELSE IF BasesOf(h, c) = <<>> THEN Return(<<>>)
    ELSE InspectNoAttributeError(h, BasesOf(h, c)[1])

inspect_searchable_tablename(h, c) ==
    IF ~issubclass(h, c, "Searchable") THEN Raise("AttributeError")
    ELSE IF "Searchable" \in Range(BasesOf(h, c))
         THEN Return(<<h[c].tablename>>)
    ELSE IF BasesOf(h, c) = <<>> THEN Return(<<>>)
    ELSE inspect_searchable_tablename(h, BasesOf(h, c)[1])

\* lines 50-59 of search_filter: the table the predicate will name
InferTablename(h, q, tn) ==
    IF ~Falsy(tn) THEN Return(tn)
    ELSE IF q.entities = <<>> THEN Raise("IndexError")
    ELSE IF q.entities[1] = <<>> THEN Raise("AttributeError")
    ELSE LET entity == q.entities[1][1]
             options == h[entity].search_options
         IN  IF options = <<>>
             THEN inspect_searchable_tablename(h, entity)
             ELSE IF options[1].tablename = <<>>
                  THEN inspect_searchable_tablename(h, entity)
                  ELSE Return(options[1].tablename)

SearchFilterWithTerm(h, q, term, tn, lang) ==
    LET t == InferTablename(h, q, tn)
    IN  IF t.kind = "raise" THEN t
        ELSE Return(<<quote_identifier(t.text)
                        \o ".search_vector @@ to_tsquery('" \o Str(term)
                        \o "')">>)

search_filter(h, q, term, tn, lang) ==
    LET t == InferTablename(h, q, tn)
    IN  IF t.kind = "raise" THEN t
        ELSE IF Falsy(lang)
             THEN Return(<<quote_identifier(t.text)
                             \o ".search_vector @@ to_tsquery(:term)">>)
             ELSE Return(<<quote_identifier(t.text)
                             \o ".search_vector @@ to_tsquery('" \o lang[1]
                             \o "', :term)">>)

\* SearchQueryMixin.search_filter
mixin_search_filter(h, self, term, tn, lang) ==
    search_filter(h, self, term, tn, lang)

---------------------------------------------------------------------------
(* search and SearchQueryMixin.search *)

SearchAlwaysFilters(h, q, sq, tn, lang) ==
    LET ts == safe_search_terms(sq, DefaultWildcard)
        f == search_filter(h, q, sq, tn, lang)
    IN  IF f.kind = "raise" THEN f
        ELSE ReturnQuery(params(filter(q, f.text[1]),
                                Str(Join(ts, <<" ", "&", " ">>))))

SearchJoinsWithSpace(h, q, sq, tn, lang) ==
    LET ts == safe_search_terms(sq, DefaultWildcard)
        f == search_filter(h, q, sq, tn, lang)
    IN  IF sq = <<>> \/ ts = <<>> THEN ReturnQuery(q)
        ELSE IF f.kind = "raise" THEN f
        ELSE ReturnQuery(params(filter(q, f.text[1]),
                                Str(Join(ts, <<" ">>))))

search(h, q, sq, tn, lang) ==
    IF sq = <<>> THEN ReturnQuery(q)
    ELSE LET ts == safe_search_terms(sq, DefaultWildcard)
         IN  IF ts = <<>> THEN ReturnQuery(q)
             ELSE LET f == IF q.has_search_filter
                           THEN mixin_search_filter(h, q, sq, tn, lang)
                           ELSE search_filter(h, q, sq, tn, lang)
                  IN  IF f.kind = "raise" THEN f
                      ELSE ReturnQuery(
                               params(filter(q, f.text[1]),
                                      Str(Join(ts, <<" ", "&", " ">>))))

mixin_search(h, self, sq, tn, lang) ==
    IF sq = <<>> THEN ReturnQuery(self)
    ELSE LET ts == safe_search_terms(sq, DefaultWildcard)
         IN  IF ts = <<>> THEN ReturnQuery(self)
             ELSE LET f == mixin_search_filter(h, self, sq, tn, lang)
                  IN  IF f.kind = "raise" THEN f
                      ELSE ReturnQuery(
                               params(filter(self, f.text[1]),
                                      Str(Join(ts, <<" ", "&", " ">>))))

---------------------------------------------------------------------------
(* Searchable: __search_args_init__, __make_ddls, define_search_vector *)

\* class attribute lookup: the class's own value, else the first base (in
\* base order) that has one
RECURSIVE LookupAttr(_, _, _), FirstFound(_, _, _)
LookupAttr(h, c, field) ==
    IF c \in DOMAIN BuiltinBases THEN <<>>
    ELSE IF h[c][field] # <<>> THEN h[c][field]
    ELSE FirstFound(h, h[c].bases, field)

FirstFound(h, bs, field) ==
    IF bs = <<>> THEN <<>>
    ELSE IF LookupAttr(h, Head(bs), field) # <<>>
         THEN LookupAttr(h, Head(bs), field)
         ELSE FirstFound(h, Tail(bs), field)

hasattr(h, c, field) == LookupAttr(h, c, field) # <<>>

\* Searchable.__search_args_init__: the hierarchy with the trigger and
\* index names of c set where c has none
search_args_init(h, c) ==
    LET h1 == IF ~hasattr(h, c, "search_trigger_name")
              THEN [h EXCEPT ![c].search_trigger_name =
                                <<h[c].tablename \o "_search_update">>]
              ELSE h
    IN  IF ~hasattr(h1, c, "search_index_name")
        THEN [h1 EXCEPT ![c].search_index_name =
                            <<h[c].tablename \o "_search_index">>]
        ELSE h1

\* Searchable.__search_catalog__
search_catalog == "pg_catalog.english"

\* ', '.join(list) for a list of strings
RECURSIVE JoinStr(_, _)
JoinStr(list, sep) ==
    IF list = <<>> THEN ""
    ELSE IF Len(list) = 1 THEN list[1]
    ELSE list[1] \o sep \o JoinStr(Tail(list), sep)

\* Searchable.__make_ddls; the statements are written with their
\* whitespace runs (newlines, indentation) as one space
make_ddls(h, c) ==
    LET t == h[c].tablename
        v == h[c].search_vector_name
    IN  << [dialect |-> "postgresql",
            sql |-> "ALTER TABLE " \o t \o " ADD COLUMN " \o v \o " tsvector"],
           [dialect |-> "postgresql",
            sql |-> "CREATE INDEX "
                    \o LookupAttr(h, c, "search_index_name")[1]
                    \o " ON " \o t \o " USING gin(" \o v \o ")"],
           [dialect |-> "postgresql",
            sql |-> "CREATE TRIGGER "
                    \o LookupAttr(h, c, "search_trigger_name")[1]
                    \o " BEFORE UPDATE OR INSERT ON " \o t
                    \o " FOR EACH ROW EXECUTE PROCEDURE"
                    \o " tsvector_update_trigger("
                    \o JoinStr(<<v, "'" \o search_catalog \o "'">>
                                   \o h[c].searchable_columns, ", ")
                    \o ")"],
           [dialect |-> "mysql",
            sql |-> "ALTER TABLE " \o t \o " ADD NEW FULLTEXT("
                    \o JoinStr(h[c].searchable_columns, ", ") \o ")"] >>

\* Searchable.define_search_vector on class c: the listeners registered on
\* c's table afterwards and whether the call raised
DefineWithoutColumnCheck(h, c, ls) ==
    IF "Searchable" \notin Range(BasesOf(h, c))
    THEN [raises |-> FALSE, listeners |-> ls]
    ELSE [raises |-> FALSE,
          listeners |-> [ls EXCEPT ![c] = @ \o make_ddls(h, c)]]

define_search_vector(h, c, ls) ==
    IF "Searchable" \notin Range(BasesOf(h, c))
    THEN [raises |-> FALSE, listeners |-> ls]
    ELSE IF h[c].searchable_columns = <<>>
         THEN [raises |-> TRUE, listeners |-> ls]
         ELSE [raises |-> FALSE,
               listeners |-> [ls EXCEPT ![c] = @ \o make_ddls(h, c)]]

---------------------------------------------------------------------------
(* Specification of the sanitizer alone *)

InitTerms ==
    /\ op = "init"
    /\ search_query = <<>>
    /\ wildcard = DefaultWildcard
    /\ terms = <<>>
    /\ query = NoQuery
    /\ tablename = <<>>
    /\ language = <<>>
    /\ result = NoResult
    /\ classes = <<>>
    /\ cls = ""
    /\ instrumented = 0
    /\ listeners = <<>>
    /\ raised = {}

CallSafeSearchTerms ==
    /\ op = "init"
    /\ \E q \in StringsUpTo(Alphabet, MaxLen) \cup {HelloWorld},
          w \in Wildcards :
          /\ search_query' = q
          /\ wildcard' = w
          /\ terms' = safe_search_terms(q, w)
    /\ op' = "safe_search_terms"
    /\ UNCHANGED <<query, tablename, language, result, classes, cls,
                   instrumented, listeners, raised>>

NextTerms == CallSafeSearchTerms

SpecTerms == InitTerms /\ [][NextTerms]_vars

---------------------------------------------------------------------------
(* Specifications of the classes and of the calls on queries *)

AllOptions == {NoOptions, EmptyOptions, CustomOptions}

InitClasses(H) ==
    /\ op = "init"
    /\ search_query = <<>>
    /\ wildcard = DefaultWildcard
    /\ terms = <<>>
    /\ query = NoQuery
    /\ tablename = <<>>
    /\ language = <<>>
    /\ result = NoResult
    /\ classes \in H
    /\ cls = ""
    /\ instrumented = 0
    /\ listeners = [c \in Models |-> <<>>]
    /\ raised = {}

\* the classes as declared, before their mappers are set up; the
\* attributes search never reads are the same in every class, and only the
\* class defined last may carry __search_options__
Init ==
    InitClasses(Hierarchies(NumModels, {<<"name">>}, {"search_vector"},
                            {NoOptions}, AllOptions))

\* every class chooses whether it has searchable columns
InitSchema ==
    InitClasses(Hierarchies(NumModels, {<<>>, <<"name">>}, {"search_vector"},
                            {NoOptions}, {NoOptions}))

\* every class chooses its __search_vector_name__, and the class defined
\* last whether it sets the 'tablename' option
InitConsistency ==
    InitClasses(Hierarchies(NumModels, {<<"name">>}, {"search_vector", "fts"},
                            {NoOptions}, {NoOptions, CustomOptions}))

\* the instrument_class event of the next class: attach_search_indexes.
\* An exception of the hook ends the program.
AttachSearchIndexes ==
    /\ op = "init"
    /\ raised = {}
    /\ instrumented < NumModels
    /\ LET c == ModelNames[instrumented + 1]
       IN  IF issubclass(classes, c, "Searchable")
           THEN LET h == search_args_init(classes, c)
                    d == define_search_vector(h, c, listeners)
                IN  /\ classes' = h
                    /\ listeners' = d.listeners
                    /\ raised' = IF d.raises THEN raised \cup {c} ELSE raised
           ELSE UNCHANGED <<classes, listeners, raised>>
    /\ instrumented' = instrumented + 1
    /\ UNCHANGED <<op, search_query, wildcard, terms, query, tablename,
                   language, result, cls>>

\* queries are made once every class is mapped
Ready == op = "init" /\ raised = {} /\ instrumented = NumModels

\* raw queries handed to search: without a word, with one word, with
\* several words and separators of each kind
SearchInputs ==
    { <<>>, <<" ">>, <<"&">>, <<"(", "\t", "#">>,
      <<"a">>, <<" ", "a", "&">>, <<"a", " ", "b">>, <<"a", ":", "b">>,
      <<"a", " ", "&", "b">>, HelloWorld }

\* the term argument of a direct search_filter call
TermArgs == { <<>>, <<"a">>, <<"a", ":", "b">>, HelloWorld }

\* the queries: over no entity, over an entity without a mapper and over
\* the class defined last (any class and its ancestors are the last
\* classes of some hierarchy)
Queries ==
    {[oid |-> 1, entities |-> e, has_search_filter |-> m,
      criteria |-> <<"id > 0">>, params |-> <<>>] :
        e \in {<<>>, << <<>> >>, << <<ModelNames[NumModels]>> >>},
        m \in BOOLEAN}

TablenameArgs == {<<>>, <<"">>, <<"users">>, <<"my table">>}

LanguageArgs == {<<>>, <<"">>, <<"english">>}

CallSearch ==
    /\ Ready
    /\ \E q \in Queries, sq \in SearchInputs,
          tn \in TablenameArgs, lang \in LanguageArgs :
          /\ query' = q
          /\ search_query' = sq
          /\ tablename' = tn
          /\ language' = lang
          /\ result' = search(classes, q, sq, tn, lang)
    /\ op' = "search"
    /\ UNCHANGED <<wildcard, terms, classes, cls, instrumented, listeners,
                   raised>>

CallMixinSearch ==
    /\ Ready
    /\ \E q \in Queries, sq \in SearchInputs,
          tn \in TablenameArgs, lang \in LanguageArgs :
          /\ q.has_search_filter
          /\ query' = q
          /\ search_query' = sq
          /\ tablename' = tn
          /\ language' = lang
          /\ result' = mixin_search(classes, q, sq, tn, lang)
    /\ op' = "mixin_search"
    /\ UNCHANGED <<wildcard, terms, classes, cls, instrumented, listeners,
                   raised>>

CallSearchFilter ==
    /\ Ready
    /\ \E q \in Queries, term \in TermArgs,
          tn \in TablenameArgs, lang \in LanguageArgs :
          /\ query' = q
          /\ search_query' = term
          /\ tablename' = tn
          /\ language' = lang
          /\ result' = search_filter(classes, q, term, tn, lang)
    /\ op' = "search_filter"
    /\ UNCHANGED <<wildcard, terms, classes, cls, instrumented, listeners,
                   raised>>

CallInspectSearchableTablename ==
    /\ Ready
    /\ \E c \in Models :
          /\ issubclass(classes, c, "Searchable")
          /\ cls' = c
          /\ result' = inspect_searchable_tablename(classes, c)
    /\ op' = "inspect_searchable_tablename"
    /\ UNCHANGED <<search_query, wildcard, terms, query, tablename,
                   language, classes, instrumented, listeners, raised>>

Next ==
    \/ AttachSearchIndexes
    \/ CallSearch
    \/ CallMixinSearch
    \/ CallSearchFilter
    \/ CallInspectSearchableTablename

Spec == Init /\ [][Next]_vars

NextSchema == AttachSearchIndexes

\* search_filter(query, term) on a query over a mapped class, with the
\* default tablename and language
CallSearchFilterDefaults ==
    /\ Ready
    /\ \E c \in Models :
          /\ query' = [oid |-> 1, entities |-> << <<c>> >>,
                       has_search_filter |-> FALSE,
                       criteria |-> <<>>, params |-> <<>>]
          /\ result' = search_filter(classes, query', <<"a">>, <<>>, <<>>)
    /\ search_query' = <<"a">>
    /\ tablename' = <<>>
    /\ language' = <<>>
    /\ op' = "search_filter"
    /\ UNCHANGED <<wildcard, terms, classes, cls, instrumented, listeners,
                   raised>>

NextConsistency == AttachSearchIndexes \/ CallSearchFilterDefaults

SpecConsistency == InitConsistency /\ [][NextConsistency]_vars

SpecSchema == InitSchema /\ [][NextSchema]_vars

---------------------------------------------------------------------------
(* Properties of safe_search_terms *)

Called(name) == op = name

\* s without the characters of drop
RECURSIVE Without(_, _)
Without(s, drop) ==
    IF s = <<>> THEN <<>>
    ELSE IF Head(s) \in drop THEN Without(Tail(s), drop)
         ELSE <<Head(s)>> \o Without(Tail(s), drop)

RECURSIVE CollapseWhitespace(_)
CollapseWhitespace(s) ==
    IF s = <<>> THEN <<>>
    ELSE IF Head(s) \in Whitespace
         THEN <<" ">> \o CollapseWhitespace(LStrip(Tail(s)))
         ELSE <<Head(s)>> \o CollapseWhitespace(Tail(s))

\* the token sequence as C5 words it: the reserved characters are deleted,
\* then whitespace runs collapse, then trim, split and suffix
DeletedThenSplit(q, w) ==
    LET cleaned == Strip(CollapseWhitespace(Without(q, Reserved)))
    IN  IF cleaned = <<>> THEN <<>>
        ELSE LET pieces == Split(cleaned, " ")
             IN  [i \in 1..Len(pieces) |-> pieces[i] \o w]

WordStarts(s) ==
    {i \in 1..Len(s) : s[i] \notin Illegal /\ (i = 1 \/ s[i - 1] \in Illegal)}

\* last position of the run of legal characters that starts at i
WordEnd(s, i) ==
    CHOOSE j \in i..Len(s) :
        /\ \A k \in i..j : s[k] \notin Illegal
        /\ (j = Len(s) \/ s[j + 1] \in Illegal)

\* the n-th smallest element of a set of positions
NthStart(S, n) == CHOOSE i \in S : Cardinality({j \in S : j < i}) = n - 1

C6_TokenInvariant ==
    Called("safe_search_terms") =>
        \A n \in 1..Len(terms) :
            LET t == terms[n]
                k == Len(t) - Len(wildcard)
            IN  /\ k >= 1
                /\ SubSeq(t, k + 1, Len(t)) = wildcard
                /\ \A i \in 1..k : t[i] \notin Whitespace \cup Reserved

C6_Witness ==
    /\ Called("safe_search_terms")
    /\ search_query = <<" ", "a", ":">>
    /\ terms = << <<"a">> \o wildcard >>

---------------------------------------------------------------------------
(* Properties of search, SearchQueryMixin.search and search_filter *)

Searched == Called("search") \/ Called("mixin_search")

OnlyIllegal(sq) == \A i \in 1..Len(sq) : sq[i] \in Illegal

\* C1: a raw query that is empty or made only of reserved characters and
\* whitespace makes search and SearchQueryMixin.search return the very
\* query object they were given: same object, no criterion added, no
\* `term` bound, and no exception whatever the query's entities are.
C1_NoTermsNoOp ==
    (Searched /\ OnlyIllegal(search_query)) =>
        /\ result.kind = "return"
        /\ result.query = query

C1_Witness ==
    /\ Called("search")
    /\ search_query = <<"(", "\t", "#">>
    /\ tablename = <<>>
    /\ query.entities = <<>>
    /\ result.query.oid = query.oid
    /\ result.query.params = <<>>

\* the words of sq from the n-th on, each with ":*", joined by " & "
RECURSIVE TermFrom(_, _)
TermFrom(sq, n) ==
    LET starts == WordStarts(sq)
        i == NthStart(starts, n)
        word == Str(SubSeq(sq, i, WordEnd(sq, i))) \o ":*"
    IN  IF n = Cardinality(starts) THEN word
        ELSE word \o " & " \o TermFrom(sq, n + 1)

\* C2: when the raw query has at least one word and search_filter builds
\* a predicate for the given or inferred table and the language, search
\* and SearchQueryMixin.search return the query with exactly that one
\* criterion added after the ones it had and with `term` bound to the
\* words, each with ":*", joined by " & " in input order ("hello world"
\* binds "hello:* & world:*"); this holds whether or not the query class
\* has its own search_filter method.
C2_FilterAndTerm ==
    (Searched /\ WordStarts(search_query) # {}) =>
        LET f == search_filter(classes, query, <<>>, tablename, language)
        IN  f.kind = "return" =>
              /\ result.kind = "return"
              /\ result.query.criteria = Append(query.criteria, f.text[1])
              /\ result.query.params = <<TermFrom(search_query, 1)>>
              /\ result.query.entities = query.entities
              /\ search_query = HelloWorld =>
                    result.query.params = <<"hello:* & world:*">>

C2_Witness ==
    /\ Called("search")
    /\ search_query = HelloWorld
    /\ tablename = <<>>
    /\ ~query.has_search_filter
    /\ result.kind = "return"
    /\ result.query.criteria =
          <<"id > 0", "\"articles\".search_vector @@ to_tsquery(:term)">>
    /\ result.query.params = <<"hello:* & world:*">>

\* C3: with a table identifier T given, search_filter returns exactly
\* "T".search_vector @@ to_tsquery(:term) when the language is None or
\* empty and "T".search_vector @@ to_tsquery('C', :term) for language C.
C3_FilterText ==
    (Called("search_filter") /\ ~Falsy(tablename)) =>
        /\ result.kind = "return"
        /\ result.text =
             IF Falsy(language)
             THEN <<"\"" \o tablename[1]
                      \o "\".search_vector @@ to_tsquery(:term)">>
             ELSE <<"\"" \o tablename[1]
                      \o "\".search_vector @@ to_tsquery('" \o language[1]
                      \o "', :term)">>
        /\ (tablename = <<"users">> /\ language = <<>>) =>
              result.text = <<"\"users\".search_vector @@ to_tsquery(:term)">>
        /\ (tablename = <<"users">> /\ language = <<"english">>) =>
              result.text =
                 <<"\"users\".search_vector @@ to_tsquery('english', :term)">>

C3_Witness ==
    /\ Called("search_filter")
    /\ tablename = <<"users">>
    /\ language = <<"english">>
    /\ result.text =
          <<"\"users\".search_vector @@ to_tsquery('english', :term)">>

\* C4: the predicate does not depend on the raw search string: for the
\* same query, tablename and language, every raw query that has a word
\* gets the predicate that the raw query "a" gets (so any two get the same
\* one), and search_filter returns the same for every term.
C4_PredicateIgnoresInput ==
    /\ (Searched /\ WordStarts(search_query) # {}) =>
          LET other == search(classes, query, <<"a">>, tablename, language)
          IN  /\ result.kind = other.kind
              /\ result.query.criteria = other.query.criteria
    /\ Called("search_filter") =>
          result = search_filter(classes, query, <<"a">>, tablename, language)

C4_Witness ==
    /\ Called("search")
    /\ search_query = <<"a", ":", "b">>
    /\ result.kind = "return"
    /\ Len(result.query.criteria) = 2
    /\ result.query.params = <<"a:* & b:*">>

\* the class of the query's first entity, when it has one
HasEntityClass(q) == q.entities # <<>> /\ q.entities[1] # <<>>

\* no tablename is given and the query's first entity names no table: it
\* is missing, or its class has no 'tablename' option and is not a proper
\* subclass of Searchable
CannotInfer ==
    /\ Falsy(tablename)
    /\ HasEntityClass(query) =>
          LET entity == query.entities[1][1]
              options == classes[entity].search_options
          IN  /\ options = <<>> \/ options[1].tablename = <<>>
              /\ ~issubclass(classes, entity, "Searchable")

NonePredicates ==
    {"\"None\".search_vector @@ to_tsquery(:term)"}
        \cup {"\"None\".search_vector @@ to_tsquery('" \o l[1] \o "', :term)" :
                l \in LanguageArgs \ {<<>>}}

\* C7: when the raw query has a word, no tablename is given and none can
\* be inferred, search ends in an exception; it returns its query
\* unmodified only when the raw query has no word, and no criterion it
\* adds is built from a missing (None) table name.
C7_InferenceFailureRaises ==
    Searched =>
        /\ (CannotInfer /\ WordStarts(search_query) # {}) =>
              result.kind = "raise"
        /\ (result.kind = "return" /\ result.query = query) =>
              WordStarts(search_query) = {}
        /\ result.kind = "return" =>
              \A i \in 1..Len(result.query.criteria) :
                  result.query.criteria[i] \notin NonePredicates

C7_Witness ==
    /\ Called("search")
    /\ search_query = <<"a">>
    /\ tablename = <<>>
    /\ HasEntityClass(query)
    /\ classes[query.entities[1][1]].bases = <<"Plain">>
    /\ result.kind = "raise"
    /\ result.exc = "AttributeError"

\* number of inheritance steps from c up to its ancestor d
RECURSIVE Distance(_, _, _)
Distance(h, c, d) ==
    IF c = d THEN 0
    ELSE LET via == {b \in Range(BasesOf(h, c)) : issubclass(h, b, d)}
             ds == {Distance(h, b, d) : b \in via}
         IN  1 + CHOOSE m \in ds : \A n \in ds : m <= n

\* the classes among c and its ancestors that list Searchable in their bases
DirectlySearchable(h, c) ==
    {d \in ({c} \cup Ancestors(h, c)) \cap DOMAIN h :
        "Searchable" \in Range(BasesOf(h, d))}

\* C9: _inspect_searchable_tablename, called on a proper subclass of
\* Searchable, returns the __tablename__ of the nearest class among the
\* class and its ancestors that lists Searchable in its bases, wherever
\* that ancestor stands among the bases.
C9_NearestSearchable ==
    Called("inspect_searchable_tablename") =>
        LET direct == DirectlySearchable(classes, cls)
            nearest == {d \in direct :
                          \A e \in direct :
                              Distance(classes, cls, d)
                                  <= Distance(classes, cls, e)}
        IN  /\ result.kind = "return"
            /\ result.text \in {<<classes[d].tablename>> : d \in nearest}

---------------------------------------------------------------------------
(* Properties of the instrument_class hook *)

Instrumented == {ModelNames[i] : i \in 1..instrumented}

DirectSubclass(c) == "Searchable" \in Range(BasesOf(classes, c))

\* C8 as stated: every instrumented subclass of Searchable without
\* searchable columns raised and has no listener; every direct subclass
\* with columns raised nothing and has its DDL registered.
C8_AsStated ==
    \A c \in Instrumented :
        /\ (issubclass(classes, c, "Searchable")
              /\ classes[c].searchable_columns = <<>>) =>
                 (c \in raised /\ listeners[c] = <<>>)
        /\ (DirectSubclass(c) /\ classes[c].searchable_columns # <<>>) =>
                 (c \notin raised /\ Len(listeners[c]) = 4)

\* C8 (amended): every model that lists Searchable among its own bases and
\* has no searchable columns raises when its class is instrumented, and no
\* listener is registered on its table; a model that lists Searchable
\* among its bases and has a searchable column raises nothing and gets its
\* four DDL statements registered; a model that inherits Searchable only
\* through another class raises nothing and gets no listener, whatever its
\* columns.
C8_DirectSubclassWithoutColumnsRaises ==
    \A c \in Instrumented :
        /\ (DirectSubclass(c) /\ classes[c].searchable_columns = <<>>) =>
                 (c \in raised /\ listeners[c] = <<>>)
        /\ (DirectSubclass(c) /\ classes[c].searchable_columns # <<>>) =>
                 /\ c \notin raised
                 /\ Len(listeners[c]) = 4
                 /\ listeners[c][1].sql =
                        "ALTER TABLE " \o classes[c].tablename
                            \o " ADD COLUMN " \o classes[c].search_vector_name
                            \o " tsvector"
        /\ ~DirectSubclass(c) => (c \notin raised /\ listeners[c] = <<>>)

C8_Witness ==
    /\ raised = {"B"}
    /\ listeners["B"] = <<>>
    /\ DirectSubclass("B")
    /\ Len(listeners["A"]) = 4

\* C10: the table and column named by the predicate search_filter builds
\* for a query on a searchable model are the table and column the model's
\* registered DDL adds.
C10_FilterMatchesDDL ==
    (Called("search_filter") /\ HasEntityClass(query)
        /\ listeners[query.entities[1][1]] # <<>>) =>
        /\ result.kind = "return"
        /\ \E t \in Range(Tablenames), v \in {"search_vector", "fts"} :
              /\ listeners[query.entities[1][1]][1].sql =
                    "ALTER TABLE " \o t \o " ADD COLUMN " \o v \o " tsvector"
              /\ result.text =
                    <<"\"" \o t \o "\"." \o v \o " @@ to_tsquery(:term)">>

====
